---- MODULE Spec2Model ----
(***************************************************************************)
(* Model of @jpwilliams/graphql-modular-loader.                            *)
(*                                                                         *)
(*   src/index.js          loader(path) and getNestedFns (getContextFns)   *)
(*   src/unnamed/part_001  the earlier loader, which keeps typesToAddMap   *)
(*                         and startingState at module level, and its      *)
(*                         getLoaders                                      *)
(*                                                                         *)
(* A JavaScript object whose key order is observable (the tree returned by *)
(* microload, an operation group, a resolver/loader/middleware map, the    *)
(* accumulators) is a sequence of <<key, value>> pairs with distinct keys, *)
(* in insertion order.  A type entry and an operation definition, whose    *)
(* fields are only read by name, are records that hold the fields present. *)
(* Schema text is a string, handled character by character.                *)
(***************************************************************************)
EXTENDS Integers, Sequences, FiniteSets, TLC

(***************************************************************************)
(* JavaScript objects as ordered key/value sequences.                      *)
(***************************************************************************)
EmptyObject == << >>

ObjectKeys(o) == [i \in 1..Len(o) |-> o[i][1]]

HasKey(o, k) == \E i \in 1..Len(o) : o[i][1] = k

KeyIndex(o, k) == CHOOSE i \in 1..Len(o) : o[i][1] = k

GetProp(o, k) == o[KeyIndex(o, k)][2]

\* o[k] = v : an existing key keeps its position, a new key goes last
SetProp(o, k, v) ==
    IF HasKey(o, k)
      THEN [o EXCEPT ![KeyIndex(o, k)] = <<k, v>>]
      ELSE Append(o, <<k, v>>)

RECURSIVE ObjectAssignFrom(_, _, _)
ObjectAssignFrom(target, source, i) ==
    IF i > Len(source) THEN target
    ELSE ObjectAssignFrom(SetProp(target, source[i][1], source[i][2]), source, i + 1)

\* Object.assign(target, source)
ObjectAssign(target, source) == ObjectAssignFrom(target, source, 1)

(***************************************************************************)
(* Strings.                                                                *)
(***************************************************************************)
CharAt(s, i) == SubSeq(s, i, i)

\* the characters String.prototype.trim removes that occur in the inputs
WhiteSpace == {" ", "\n", "\t"}

RECURSIVE TrimStart(_)
TrimStart(s) ==
    IF Len(s) > 0 /\ CharAt(s, 1) \in WhiteSpace
      THEN TrimStart(SubSeq(s, 2, Len(s)))
      ELSE s

RECURSIVE TrimEnd(_)
TrimEnd(s) ==
    IF Len(s) > 0 /\ CharAt(s, Len(s)) \in WhiteSpace
      THEN TrimEnd(SubSeq(s, 1, Len(s) - 1))
      ELSE s

\* String.prototype.trim
Trim(s) == TrimEnd(TrimStart(s))

\* String.prototype.startsWith
StartsWith(s, prefix) ==
    /\ Len(s) >= Len(prefix)
    /\ SubSeq(s, 1, Len(prefix)) = prefix

UpperCaseLetters == "ABCDEFGHIJKLMNOPQRSTUVWXYZ"

LowerCaseLetters == "abcdefghijklmnopqrstuvwxyz"

LowerChar(c) ==
    IF \E i \in 1..Len(UpperCaseLetters) : CharAt(UpperCaseLetters, i) = c
      THEN CharAt(LowerCaseLetters,
                  CHOOSE i \in 1..Len(UpperCaseLetters) : CharAt(UpperCaseLetters, i) = c)
      ELSE c

RECURSIVE ToLowerCase(_)
\* String.prototype.toLowerCase
ToLowerCase(s) ==
    IF Len(s) = 0 THEN s
    ELSE LowerChar(CharAt(s, 1)) \o ToLowerCase(SubSeq(s, 2, Len(s)))

(***************************************************************************)
(* gql: the schema text parser (graphql-tag).  The loader only hands it    *)
(* text and keeps the document it returns, or is aborted by its syntax     *)
(* error.  The grammar below is the part of the schema language that the   *)
(* loader's own root document, the README's fragments and the malformed    *)
(* fragments use:                                                          *)
(*   Document   ::= Definition+                                            *)
(*   Definition ::= "type" Name [ "{" Field+ "}" ]                         *)
(*                | "input" Name [ "{" InputValue+ "}" ]                   *)
(*                | "scalar" Name                                          *)
(*                | "extend" "type" Name "{" Field+ "}"                    *)
(*                | "extend" "input" Name "{" InputValue+ "}"              *)
(*                | "schema" "{" OperationType+ "}"                        *)
(*   Field      ::= Name [ "(" InputValue+ ")" ] ":" Type                  *)
(*   InputValue ::= Name ":" Type                                          *)
(*   OperationType ::= ("query" | "mutation" | "subscription") ":" Name    *)
(*   Type       ::= ( Name | "[" Type "]" ) [ "!" ]                        *)
(* White space, commas and # comments are ignored.  A document is the      *)
(* sequence of its definitions; a type is kept as its printed form.        *)
(***************************************************************************)
Ignored == WhiteSpace \cup {","}

Digits == "0123456789"

\* the characters a name starts with
NameStart ==
    { CharAt(UpperCaseLetters, i) : i \in 1..Len(UpperCaseLetters) }
    \cup { CharAt(LowerCaseLetters, i) : i \in 1..Len(LowerCaseLetters) }
    \cup {"_"}

\* the characters of a name
NameChars == NameStart \cup { CharAt(Digits, i) : i \in 1..Len(Digits) }

IsWordChar(s, i) == CharAt(s, i) \in NameChars

\* the first position from i on that holds no ignored character
SkipIgnored(s, i) ==
    CHOOSE j \in i..(Len(s) + 1) :
        /\ \A k \in i..(j - 1) : CharAt(s, k) \in Ignored
        /\ j = Len(s) + 1 \/ CharAt(s, j) \notin Ignored

\* the last position of the word that starts at i
WordEnd(s, i) ==
    CHOOSE j \in i..Len(s) :
        /\ j = Len(s) \/ ~IsWordChar(s, j + 1)
        /\ \A k \in i..j : IsWordChar(s, k)

\* the last position of the comment that starts at i
CommentEnd(s, i) ==
    CHOOSE j \in i..Len(s) :
        /\ j = Len(s) \/ CharAt(s, j + 1) = "\n"
        /\ \A k \in i..j : CharAt(s, k) # "\n"

RECURSIVE LexFrom(_, _, _)
\* the tokens of s from position i on: punctuators and words; a character
\* that starts none of them is a token of its own, which no rule accepts
LexFrom(s, i, toks) ==
    LET start == SkipIgnored(s, i)
    IN  IF start > Len(s) THEN toks
        ELSE IF CharAt(s, start) = "#"
          THEN LexFrom(s, CommentEnd(s, start) + 1, toks)
        ELSE IF ~IsWordChar(s, start)
          THEN LexFrom(s, start + 1, Append(toks, CharAt(s, start)))
          ELSE LET end == WordEnd(s, start)
               IN  LexFrom(s, end + 1, Append(toks, SubSeq(s, start, end)))

Lex(s) == LexFrom(s, 1, << >>)

IsName(toks, i) == i <= Len(toks) /\ CharAt(toks[i], 1) \in NameStart

IsTok(toks, i, t) == i <= Len(toks) /\ toks[i] = t


\* the element of a one-element set; { body : v \in {e} } computes e once
TheOne(S) == CHOOSE v \in S : TRUE

ParseFailed(i) == [ok |-> FALSE, fields |-> << >>, type |-> "", next |-> i]

\* a type followed by "!" is a non-null type
ParseNonNull(toks, base) ==
    IF base.ok /\ IsTok(toks, base.next, "!")
      THEN [base EXCEPT !.type = @ \o "!", !.next = @ + 1]
      ELSE base

\* "]" after the type inside a list type
ParseListEnd(toks, inner) ==
    IF inner.ok /\ IsTok(toks, inner.next, "]")
      THEN [inner EXCEPT !.type = "[" \o @ \o "]", !.next = @ + 1]
      ELSE ParseFailed(inner.next)

RECURSIVE ParseType(_, _)
\* Type starting at toks[i]
ParseType(toks, i) ==
    TheOne({ ParseNonNull(toks, base) :
             base \in { IF IsName(toks, i)
                          THEN [ok |-> TRUE, fields |-> << >>,
                                type |-> toks[i], next |-> i + 1]
                        ELSE IF IsTok(toks, i, "[")
                          THEN TheOne({ ParseListEnd(toks, inner) :
                                        inner \in {ParseType(toks, i + 1)} })
                          ELSE ParseFailed(i) } })

\* ":" Type starting at toks[i]
ParseTypeAfterColon(toks, i) ==
    IF IsTok(toks, i, ":") THEN ParseType(toks, i + 1) ELSE ParseFailed(i)

RECURSIVE ParseInputValues(_, _, _, _)
\* InputValue+ close starting at toks[i]; next is the index after close
ParseInputValues(toks, i, values, close) ==
    IF IsName(toks, i)
      THEN TheOne({ IF t.ok
                      THEN ParseInputValues(toks, t.next,
                             Append(values, <<toks[i], t.type>>), close)
                      ELSE ParseFailed(i) :
                    t \in {ParseTypeAfterColon(toks, i + 1)} })
    ELSE IF IsTok(toks, i, close) /\ Len(values) > 0
      THEN [ok |-> TRUE, fields |-> values, type |-> "", next |-> i + 1]
      ELSE ParseFailed(i)

\* [ "(" InputValue+ ")" ] starting at toks[i]
ParseArguments(toks, i) ==
    IF IsTok(toks, i, "(")
      THEN ParseInputValues(toks, i + 1, << >>, ")")
      ELSE [ok |-> TRUE, fields |-> << >>, type |-> "", next |-> i]

\* Field+ "}" starting at toks[i]; a field is <<name, arguments, type>>
RECURSIVE ParseFields(_, _, _)
ParseFields(toks, i, fields) ==
    IF IsName(toks, i)
      THEN TheOne({ IF t.ok
                      THEN ParseFields(toks, t.next,
                             Append(fields, <<toks[i], args.fields, t.type>>))
                      ELSE ParseFailed(i) :
                    <<args, t>> \in
                      { <<a, IF a.ok THEN ParseTypeAfterColon(toks, a.next)
                                     ELSE ParseFailed(i)>> :
                        a \in {ParseArguments(toks, i + 1)} } })
    ELSE IF IsTok(toks, i, "}") /\ Len(fields) > 0
      THEN [ok |-> TRUE, fields |-> fields, type |-> "", next |-> i + 1]
      ELSE ParseFailed(i)

OperationTypes == {"query", "mutation", "subscription"}

\* OperationType+ "}" starting at toks[i]; an entry is <<operation, type>>
RECURSIVE ParseOperationTypes(_, _, _)
ParseOperationTypes(toks, i, fields) ==
    IF i <= Len(toks) /\ toks[i] \in OperationTypes
         /\ IsTok(toks, i + 1, ":") /\ IsName(toks, i + 2)
      THEN ParseOperationTypes(toks, i + 3, Append(fields, <<toks[i], toks[i + 2]>>))
    ELSE IF IsTok(toks, i, "}") /\ Len(fields) > 0
      THEN [ok |-> TRUE, fields |-> fields, type |-> "", next |-> i + 1]
      ELSE ParseFailed(i)

\* the body of a definition of the given kind, starting after its "{"
ParseBody(toks, i, kind) ==
    IF kind \in {"ObjectTypeDefinition", "ObjectTypeExtension"}
      THEN ParseFields(toks, i, << >>)
    ELSE IF kind = "SchemaDefinition"
      THEN ParseOperationTypes(toks, i, << >>)
      ELSE ParseInputValues(toks, i, << >>, "}")

\* the kind of definition that the keyword at toks[k] starts
DefinitionKind(toks, k, extension) ==
    IF k > Len(toks) THEN "none"
    ELSE IF toks[k] = "type"
      THEN IF extension THEN "ObjectTypeExtension" ELSE "ObjectTypeDefinition"
    ELSE IF toks[k] = "input"
      THEN IF extension THEN "InputObjectTypeExtension"
                        ELSE "InputObjectTypeDefinition"
    ELSE IF toks[k] = "scalar" /\ ~extension THEN "ScalarTypeDefinition"
    ELSE IF toks[k] = "schema" /\ ~extension THEN "SchemaDefinition"
    ELSE "none"

NoDefinition(i) == [ok |-> FALSE, next |-> i]

\* the definition of the given kind whose name, if it has one, is at
\* toks[open - 1] and whose body, if it has one, starts at toks[open]
ParseDefinitionBody(toks, i, open, kind, name) ==
    IF kind = "ScalarTypeDefinition"
      THEN [ok |-> TRUE, next |-> open,
            def |-> [kind |-> kind, name |-> name, fields |-> << >>]]
    ELSE IF IsTok(toks, open, "{")
      THEN TheOne({ IF body.ok
                      THEN [ok |-> TRUE, next |-> body.next,
                            def |-> [kind |-> kind, name |-> name,
                                     fields |-> body.fields]]
                      ELSE NoDefinition(i) :
                    body \in {ParseBody(toks, open + 1, kind)} })
    ELSE IF kind \in {"ObjectTypeDefinition", "InputObjectTypeDefinition"}
      THEN [ok |-> TRUE, next |-> open,
            def |-> [kind |-> kind, name |-> name, fields |-> << >>]]
      ELSE NoDefinition(i)

\* one Definition starting at toks[i]
ParseDefinition(toks, i) ==
    TheOne({ IF kind = "none" THEN NoDefinition(i)
             ELSE IF kind = "SchemaDefinition"
               THEN ParseDefinitionBody(toks, i, k + 1, kind, "schema")
             ELSE IF IsName(toks, k + 1)
               THEN ParseDefinitionBody(toks, i, k + 2, kind, toks[k + 1])
               ELSE NoDefinition(i) :
             <<k, kind>> \in
               { <<j, DefinitionKind(toks, j, j # i)>> :
                 j \in { IF IsTok(toks, i, "extend") THEN i + 1 ELSE i } } })

RECURSIVE ParseDefinitions(_, _, _)
ParseDefinitions(toks, i, defs) ==
    IF i > Len(toks)
      THEN [ok |-> Len(defs) > 0, doc |-> defs]
      ELSE TheOne({ IF d.ok THEN ParseDefinitions(toks, d.next, Append(defs, d.def))
                            ELSE [ok |-> FALSE, doc |-> defs] :
                    d \in {ParseDefinition(toks, i)} })

\* gql(text): [ok |-> TRUE, doc |-> document], or ok = FALSE when gql throws
gql(text) == TheOne({ ParseDefinitions(toks, 1, << >>) : toks \in {Lex(text)} })

(***************************************************************************)
(* Inputs.  microload(path) returns the tree found on disk under path; the *)
(* trees are built from a catalogue of type entries.                       *)
(***************************************************************************)
\* resolver function objects; each has a name property
Functions == {"fnA", "fnB", "fnC", "fnD"}

\* the name a function object has from its creation: the functions are
\* written as in types/Book.js of the README, as the values of the
\* properties resolver (books), resolver (addBook), author and resolver
\* (bookAdded), and a function written so is named after its property
CreationName ==
    [fnA |-> "resolver", fnB |-> "resolver", fnC |-> "author", fnD |-> "resolver"]

\* loader / middleware factories, see CallFactory
Factories == {"newLoader", "asyncLoader", "readersOnly"}

\* request contexts; readersOnly throws for the anonymous one
Contexts == {"reader", "anonymous"}

TypeNames == {"Book", "Query"}

EmptyRecord == [f \in {} |-> TRUE]

BookSchema == "type Book { title: String }"

\* operation schema fragments as they may be written under Query/<operation>
OperationTexts ==
    { "type Query { books: Book }",
      "extend type Query { books: Book }",
      "\n  extend type Query { books: Book }\n",
      "  type Query { books: Book }\n",
      "extend extend type Query { books: Book }",
      "extendtype Query { books: Book }",
      " \n" }

QueryShapes ==
    { EmptyRecord,
      [Query |-> << <<"books", [schema |-> "type Query { books: Book }",
                                resolver |-> "fnA"]>>,
                    <<"noop", EmptyRecord>>,
                    <<"book", [schema |-> "extend type Query { book: Book }"]>> >>] }

MutationShapes ==
    { EmptyRecord,
      [Mutation |-> << <<"noop", EmptyRecord>> >>],
      [Mutation |-> << <<"addBook", [resolver |-> "fnB"]>> >>] }

SubscriptionShapes ==
    { EmptyRecord,
      [Subscription |-> << <<"bookAdded",
           [schema |-> "\n extend type Subscription { bookAdded: Book }\n"]>> >>] }

SchemaShapes == { EmptyRecord, [schema |-> BookSchema] }

\* entries that vary the operation groups
OperationEntries ==
    { s @@ q @@ m @@ u : s \in SchemaShapes, q \in QueryShapes,
                         m \in MutationShapes, u \in SubscriptionShapes }

LoaderShapes ==
    { EmptyRecord,
      [loaders |-> << <<"bookById", "newLoader">> >>],
      [loaders |-> << <<"bookById", "asyncLoader">>, <<"bookByName", "readersOnly">> >>] }

MiddlewareShapes ==
    { EmptyRecord,
      [middleware |-> << <<"hasAccessToBook", "readersOnly">> >>],
      [middleware |-> << <<"hasAccessToBook", "asyncLoader">>, <<"audit", "newLoader">> >>] }

\* entries that vary the context factories and the field resolvers
FactoryEntries ==
    { [resolvers |-> << <<"author", "fnC">> >>,
       Query |-> << <<"books", [resolver |-> "fnA"]>> >>] @@ l @@ m :
         l \in LoaderShapes, m \in MiddlewareShapes }

\* the schema texts of the README's Book type
ReadmeBookSchema == "\ntype Book {\n\ttitle: String\n\tauthor: Author\n}\n"

ReadmeBooksSchema == "extend type Query {\n\t\t\tbooks: [Book]\n\t\t}"

ReadmeAddBookSchema ==
    "extend type Mutation {\n\t\t\taddBook(input: AddBookInput!): AddBookOutput\n\t\t}\n\t\t\n\t\tinput AddBookInput {\n\t\t\ttitle: String!\n\t\t\tauthor: String!\n\t\t}\n\t\t\n\t\ttype AddBookOutput {\n\t\t\tbook: Book\n\t\t}"

ReadmeBookAddedSchema ==
    "extend type Subscription {\n\t\t\tbookAdded: BookAddedPayload\n\t\t}\n\n\t\ttype BookAddedPayload {\n\t\t\tbook: Book\n\t\t}"

\* types/Book.js of the README; its four resolvers are four function objects
ReadmeBook ==
    [schema |-> ReadmeBookSchema,
     Query |-> << <<"books", [schema |-> ReadmeBooksSchema, resolver |-> "fnA"]>> >>,
     Mutation |-> << <<"addBook", [schema |-> ReadmeAddBookSchema,
                                   resolver |-> "fnB"]>> >>,
     Subscription |-> << <<"bookAdded", [schema |-> ReadmeBookAddedSchema,
                                         resolver |-> "fnD"]>> >>,
     resolvers |-> << <<"author", "fnC">> >>,
     loaders |-> << <<"bookByName", "newLoader">> >>]

\* entries that vary the schema text
TextEntries ==
    { ReadmeBook } \cup
    { [Query |-> << <<"books", [schema |-> t]>> >>] : t \in OperationTexts }
    \cup
    { [schema |-> t, Query |-> << <<"books", [resolver |-> "fnA"]>> >>] :
         t \in { "type Book {", "\n  type Book { title: String }\n",
                 "extend type Book { pages: Int }" } }

\* entries that vary the field resolvers and the operation resolvers; a type
\* entry may name a field as an operation is named
ResolverEntries ==
    { r @@ q :
        r \in { EmptyRecord,
                [resolvers |-> << <<"books", "fnC">> >>],
                [resolvers |-> << <<"author", "fnC">> >>] },
        q \in { EmptyRecord,
                [Query |-> << <<"books", [resolver |-> "fnA"]>> >>],
                [Query |-> << <<"books", [resolver |-> "fnB"]>>,
                              <<"book", [resolver |-> "fnA"]>> >>] } }

\* the trees over a set of entries: every sequence of at most one entry per
\* type name
TreesOver(entries) ==
    { << >> }
    \cup { << <<n, e>> >> : n \in TypeNames, e \in entries }
    \cup { << <<n1, e1>>, <<n2, e2>> >> :
             <<n1, n2>> \in { p \in TypeNames \X TypeNames : p[1] # p[2] },
             <<e1, e2>> \in entries \X entries }

FactoryTrees == TreesOver(FactoryEntries)

\* the trees microload can return
Trees ==
    TreesOver(OperationEntries) \cup FactoryTrees \cup TreesOver(TextEntries)
        \cup TreesOver(ResolverEntries)

\* the trees used with the loader of src/unnamed/part_001
EarlyTrees ==
    { << >>,
      << <<"Book", [Mutation |-> << <<"noop", EmptyRecord>> >>]>> >>,
      << <<"Book", [schema |-> BookSchema,
                    resolvers |-> << <<"author", "fnC">> >>,
                    loaders |-> << <<"bookById", "newLoader">> >>,
                    Query |-> << <<"books", [schema |-> "type Query { books: Book }",
                                             resolver |-> "fnA"]>> >>]>> >>,
      << <<"Author", [loaders |-> << <<"bookById", "asyncLoader">> >>,
                      Mutation |-> << <<"addAuthor", [resolver |-> "fnB"]>> >>]>> >>,
      << <<"Author", [schema |-> "type Author {"]>> >> }

(***************************************************************************)
(* The reduction shared by both loaders.  The running state st of one call *)
(* holds the accumulator exp, the typesToAddMap, the name property of the  *)
(* resolver function objects, the texts handed to gql so far, and whether  *)
(* an exception has aborted the call (every later step is then skipped).   *)
(***************************************************************************)
Present(obj, field) == field \in DOMAIN obj

\* JavaScript truthiness of obj[field]: absent and "" are falsy
Truthy(obj, field) == Present(obj, field) /\ obj[field] # ""

NoError == [name |-> "none", message |-> ""]

\* the error gql throws; it carries the text it was given, nothing else
SyntaxError(text) == [name |-> "GraphQLError", message |-> text]

\* exp.typeDefs.push(gql(text)); gqlCalls records the text and where it came from
PushTypeDef(st, text, origin) ==
    LET parsed == gql(text)
        call   == [text |-> text, origin |-> origin, ok |-> parsed.ok]
    IN  IF parsed.ok
          THEN [st EXCEPT !.exp.typeDefs = Append(@, parsed.doc),
                          !.gqlCalls = Append(@, call)]
          ELSE [st EXCEPT !.threw = TRUE,
                          !.error = SyntaxError(text),
                          !.gqlCalls = Append(@, call)]

\* DefineName that leaves the function object as it is
DefineName_Untouched(st, fn, value) == st

\* Object.defineProperty(fn, 'name', { value })
DefineName(st, fn, value) == [st EXCEPT !.fnName[fn] = value]

\* the values of a resolvers object that are functions
IsFunction(v) == v \in Functions

RECURSIVE NameResolversFrom(_, _, _, _)
NameResolversFrom(st, typeKey, resolvers, i) ==
    IF i > Len(resolvers) THEN st
    ELSE LET resolverKey == resolvers[i][1]
             fn          == resolvers[i][2]
         IN  NameResolversFrom(
               IF IsFunction(fn)
                 THEN DefineName(st, fn, "Resolver_" \o typeKey \o "_" \o resolverKey)
                 ELSE st,
               typeKey, resolvers, i + 1)

\* obj[key] = obj[key] || {}
InitialiseKey(obj, key) ==
    IF HasKey(obj, key) THEN obj ELSE SetProp(obj, key, EmptyObject)

LoadSchema(st, typeKey, entry) ==
    IF st.threw \/ ~Truthy(entry, "schema") THEN st
    ELSE PushTypeDef(st, entry.schema, <<typeKey>>)

LoadResolvers(st, typeKey, entry) ==
    IF st.threw \/ ~Present(entry, "resolvers") THEN st
    ELSE LET named == NameResolversFrom(st, typeKey, entry.resolvers, 1)
             init  == InitialiseKey(named.exp.resolvers, typeKey)
         IN  [named EXCEPT !.exp.resolvers =
                SetProp(init, typeKey,
                        ObjectAssign(GetProp(init, typeKey), entry.resolvers))]

\* LoadLoaders where a name that is already registered keeps its factory
LoadLoaders_FirstWins(st, entry) ==
    IF st.threw \/ ~Present(entry, "loaders") THEN st
    ELSE [st EXCEPT !.exp.loaders = ObjectAssign(entry.loaders, @)]

LoadLoaders(st, entry) ==
    IF st.threw \/ ~Present(entry, "loaders") THEN st
    ELSE [st EXCEPT !.exp.loaders = ObjectAssign(@, entry.loaders)]

LoadMiddleware(st, entry) ==
    IF st.threw \/ ~Present(entry, "middleware") THEN st
    ELSE [st EXCEPT !.exp.middleware = ObjectAssign(@, entry.middleware)]

\* ExtendSchema that prefixes whatever the fragment begins with
ExtendSchema_Always(schema) == "extend " \o Trim(schema)

\* the text of an operation schema that is handed to gql
ExtendSchema(schema) ==
    LET targetSchema == Trim(schema)
    IN  IF ~StartsWith(targetSchema, "extend")
          THEN "extend " \o targetSchema
          ELSE targetSchema

MarkTypeToAdd(typesToAddMap, item) == SetProp(typesToAddMap, item, TRUE)

LoadOperationSchema(st, typeKey, item, key, def) ==
    IF st.threw \/ ~Truthy(def, "schema") THEN st
    ELSE PushTypeDef(st, ExtendSchema(def.schema), <<typeKey, item, key>>)

LoadOperationResolver(st, typeKey, item, key, def) ==
    IF st.threw \/ ~Present(def, "resolver") THEN st
    ELSE LET named == DefineName(st, def.resolver,
                                 item \o "_" \o typeKey \o "_" \o key)
             init  == InitialiseKey(named.exp.resolvers, item)
         IN  [named EXCEPT !.exp.resolvers =
                SetProp(init, item, SetProp(GetProp(init, item), key, def.resolver))]

\* LoadOperation without the check for the minimum requirements
LoadOperation_MarksInert(st, typeKey, item, key, def) ==
    IF st.threw THEN st
    ELSE LET marked == [st EXCEPT !.typesToAddMap = MarkTypeToAdd(@, item)]
         IN  LoadOperationResolver(
               LoadOperationSchema(marked, typeKey, item, key, def),
               typeKey, item, key, def)

\* the body of keys.forEach((key) => ...)
LoadOperation(st, typeKey, item, key, def) ==
    IF st.threw THEN st
    ELSE IF ~Truthy(def, "schema") /\ ~Present(def, "resolver") THEN st
    ELSE LET marked == [st EXCEPT !.typesToAddMap = MarkTypeToAdd(@, item)]
         IN  LoadOperationResolver(
               LoadOperationSchema(marked, typeKey, item, key, def),
               typeKey, item, key, def)

RECURSIVE LoadOperationsFrom(_, _, _, _, _)
LoadOperationsFrom(st, typeKey, item, target, i) ==
    IF i > Len(target) THEN st
    ELSE LoadOperationsFrom(
           LoadOperation(st, typeKey, item, target[i][1], target[i][2]),
           typeKey, item, target, i + 1)

commonResolvers == <<"Query", "Mutation", "Subscription">>

RECURSIVE LoadCommonResolversFrom(_, _, _, _)
\* commonResolvers.forEach((item) => ...)
LoadCommonResolversFrom(st, typeKey, entry, n) ==
    IF n > Len(commonResolvers) THEN st
    ELSE LET item == commonResolvers[n]
         IN  LoadCommonResolversFrom(
               IF ~Present(entry, item) THEN st
               ELSE LoadOperationsFrom(st, typeKey, item, entry[item], 1),
               typeKey, entry, n + 1)

\* reduceType that loads the operation groups before the entry's own fields
reduceType_OperationsFirst(st, typeKey, entry) ==
    LoadMiddleware(
      LoadLoaders(
        LoadResolvers(
          LoadSchema(LoadCommonResolversFrom(st, typeKey, entry, 1),
                     typeKey, entry),
          typeKey, entry),
        entry),
      entry)

\* the reducer of src/index.js for one type entry
reduceType(st, typeKey, entry) ==
    LoadCommonResolversFrom(
      LoadMiddleware(
        LoadLoaders(
          LoadResolvers(
            LoadSchema(st, typeKey, entry),
            typeKey, entry),
          entry),
        entry),
      typeKey, entry, 1)

RECURSIVE reduceTypesFrom(_, _, _)
\* Object.keys(types).reduce(...)
reduceTypesFrom(st, types, i) ==
    IF i > Len(types) THEN st
    ELSE reduceTypesFrom(reduceType(st, types[i][1], types[i][2]), types, i + 1)

RECURSIVE TypeLinesFrom(_, _)
\* typesToAdd.forEach((type) => { BaseTypeDefs += `type ${type}\n` })
TypeLinesFrom(typesToAdd, i) ==
    IF i > Len(typesToAdd) THEN ""
    ELSE "type " \o typesToAdd[i] \o "\n" \o TypeLinesFrom(typesToAdd, i + 1)

RECURSIVE SchemaLinesFrom(_, _)
\* typesToAdd.forEach((type) => { BaseTypeDefs += `  ${type.toLowerCase()}: ${type}\n` })
SchemaLinesFrom(typesToAdd, i) ==
    IF i > Len(typesToAdd) THEN ""
    ELSE "  " \o ToLowerCase(typesToAdd[i]) \o ": " \o typesToAdd[i] \o "\n"
              \o SchemaLinesFrom(typesToAdd, i + 1)

BaseTypeDefs(typesToAdd) ==
    "\n" \o TypeLinesFrom(typesToAdd, 1) \o "schema {\n"
         \o SchemaLinesFrom(typesToAdd, 1) \o "}\n"

(***************************************************************************)
(* State.                                                                  *)
(***************************************************************************)
VARIABLES
    disk,          \* path |-> the tree microload returns for that path
    types,         \* the tree the last loader call got from microload
    result,        \* outcome of the last loader call
    fnName,        \* the name property of every resolver function object
    gqlCalls,      \* the texts the last loader call handed to gql, in order
    typesToAddMap, \* src/unnamed/part_001: module-level map
    startingState, \* src/unnamed/part_001: module-level accumulator
    calls,         \* number of loader calls made so far
    ctxCalls,      \* outcomes of the getContextFns calls made on result, in order
    pending,       \* serials of the promises that have not settled yet
    serial         \* number of objects created by factories so far

vars == <<disk, types, result, fnName, gqlCalls, typesToAddMap, startingState,
          calls, ctxCalls, pending, serial>>

\* getContextFns calls made on one loader result
MaxCtxCalls == 2

\* loader calls of src/unnamed/part_001 in one process
MaxCalls == 3

NoResult == [status |-> "none"]

Threw(error) == [status |-> "threw", error |-> error]

JsError(message) == [name |-> "Error", message |-> message]

\* the accumulator literal of src/index.js
NewExp ==
    [typeDefs |-> << >>, resolvers |-> EmptyObject,
     loaders |-> EmptyObject, middleware |-> EmptyObject]

\* src/index.js:32, a map made by each call
NewTypesToAddMap == EmptyObject

\* the state a loader call starts from
StartState(exp, map) ==
    [exp |-> exp, typesToAddMap |-> map, fnName |-> fnName,
     gqlCalls |-> << >>, threw |-> FALSE, error |-> NoError]

\* src/index.js: the lines after the reduction
FinishLoad(st) ==
    LET typesToAdd == ObjectKeys(st.typesToAddMap)
    IN  IF st.threw THEN st
        ELSE IF Len(typesToAdd) = 0
          THEN [st EXCEPT !.threw = TRUE,
                  !.error = JsError("No Query, Mutation or Subscription found. You must provide at least a valid Query schema.")]
          ELSE PushTypeDef(st, BaseTypeDefs(typesToAdd), << >>)

Returned(st) ==
    [status |-> "returned",
     typeDefs |-> st.exp.typeDefs,
     resolvers |-> st.exp.resolvers,
     loaders |-> st.exp.loaders,
     middleware |-> st.exp.middleware]

Paths == DOMAIN disk \cup {""}

\* loader(path) of src/index.js
loader(path) ==
    /\ ctxCalls' = << >>
    /\ pending' = {}
    /\ serial' = 0
    /\ UNCHANGED <<disk, typesToAddMap, startingState, calls>>
    /\ IF path = ""
         THEN /\ result' = Threw(JsError("A path to load must be specified."))
              /\ gqlCalls' = << >>
              /\ UNCHANGED <<types, fnName>>
         ELSE LET st == FinishLoad(
                          reduceTypesFrom(StartState(NewExp, NewTypesToAddMap),
                                          disk[path], 1))
              IN  /\ types' = disk[path]
                  /\ fnName' = st.fnName
                  /\ gqlCalls' = st.gqlCalls
                  /\ result' = IF st.threw THEN Threw(st.error) ELSE Returned(st)

(***************************************************************************)
(* getContextFns = getNestedFns.bind(null, { loaders, middleware })        *)
(***************************************************************************)
\* what a factory does when it is called with a context; n is the serial
\* number of the object it creates
CallFactory(factory, context, n) ==
    IF factory = "readersOnly" /\ context = "anonymous"
      THEN [threw |-> TRUE,
            error |-> JsError("Must be a reader to see that book!")]
    ELSE IF factory = "asyncLoader"
      THEN [threw |-> FALSE,
            value |-> [kind |-> "promise", factory |-> factory,
                       context |-> context, serial |-> n]]
      ELSE [threw |-> FALSE,
            value |-> [kind |-> "instance", factory |-> factory,
                       context |-> context, serial |-> n]]

\* RealizeKey that keeps what an earlier call realized under the same key
RealizeKey_Memoized(r, mainKey, key, factory, context) ==
    LET out == CallFactory(factory, context, r.serial + 1)
        inv == [mainKey |-> mainKey, key |-> key,
                factory |-> factory, context |-> context]
        earlier == { n \in 1..Len(ctxCalls) : ctxCalls[n].status = "returned" }
    IN  IF earlier # {}
          THEN LET c == ctxCalls[CHOOSE n \in earlier : TRUE]
               IN  [r EXCEPT !.map = SetProp(@, key,
                                       GetProp(GetProp(c.value, mainKey), key))]
        ELSE IF out.threw
          THEN [r EXCEPT !.invoked = Append(@, inv),
                         !.threw = TRUE, !.error = out.error,
                         !.failed = <<mainKey, key>>]
          ELSE [r EXCEPT !.invoked = Append(@, inv),
                         !.serial = @ + 1,
                         !.map = SetProp(@, key, out.value),
                         !.pending = IF out.value.kind = "promise"
                                       THEN @ \cup {r.serial + 1} ELSE @]

\* RealizeKey that waits for the promise of an asynchronous factory and
\* stores what it resolves to
RealizeKey_Awaits(r, mainKey, key, factory, context) ==
    LET out == CallFactory(factory, context, r.serial + 1)
        inv == [mainKey |-> mainKey, key |-> key,
                factory |-> factory, context |-> context]
    IN  IF out.threw
          THEN [r EXCEPT !.invoked = Append(@, inv),
                         !.threw = TRUE, !.error = out.error,
                         !.failed = <<mainKey, key>>]
          ELSE [r EXCEPT !.invoked = Append(@, inv),
                         !.serial = @ + 1,
                         !.map = SetProp(@, key,
                                   [out.value EXCEPT !.kind = "instance"])]

\* map[key] = nestedBlocks[mainKey][key](context)
RealizeKey(r, mainKey, key, factory, context) ==
    LET out == CallFactory(factory, context, r.serial + 1)
        inv == [mainKey |-> mainKey, key |-> key,
                factory |-> factory, context |-> context]
    IN  IF out.threw
          THEN [r EXCEPT !.invoked = Append(@, inv),
                         !.threw = TRUE, !.error = out.error,
                         !.failed = <<mainKey, key>>]
          ELSE [r EXCEPT !.invoked = Append(@, inv),
                         !.serial = @ + 1,
                         !.map = SetProp(@, key, out.value),
                         !.pending = IF out.value.kind = "promise"
                                       THEN @ \cup {r.serial + 1} ELSE @]

RECURSIVE RealizeKeysFrom(_, _, _, _, _)
\* Object.keys(nestedBlocks[mainKey]).reduce(..., {})
RealizeKeysFrom(r, mainKey, fns, context, i) ==
    IF r.threw \/ i > Len(fns) THEN r
    ELSE RealizeKeysFrom(RealizeKey(r, mainKey, fns[i][1], fns[i][2], context),
                         mainKey, fns, context, i + 1)

RECURSIVE RealizeBlocksFrom(_, _, _, _)
\* Object.keys(nestedBlocks).reduce(..., {})
RealizeBlocksFrom(r, nestedBlocks, context, n) ==
    IF r.threw \/ n > Len(nestedBlocks) THEN r
    ELSE LET mainKey == nestedBlocks[n][1]
             inner   == RealizeKeysFrom([r EXCEPT !.map = EmptyObject], mainKey,
                                        nestedBlocks[n][2], context, 1)
         IN  RealizeBlocksFrom(
               IF inner.threw THEN inner
               ELSE [inner EXCEPT !.block = SetProp(@, mainKey, inner.map)],
               nestedBlocks, context, n + 1)

getNestedFns(nestedBlocks, context) ==
    RealizeBlocksFrom(
      [block |-> EmptyObject, map |-> EmptyObject, invoked |-> << >>,
       serial |-> serial, pending |-> pending,
       threw |-> FALSE, error |-> NoError, failed |-> << >>],
      nestedBlocks, context, 1)

\* the serials of the promises held by a realized mapping
PromisesIn(block) ==
    { block[n][2][i][2].serial :
        <<n, i>> \in { p \in (1..Len(block)) \X (1..4) :
                         /\ p[2] <= Len(block[p[1]][2])
                         /\ block[p[1]][2][p[2]][2].kind = "promise" } }

\* one call getContextFns(context) on the result of the last loader call
getContextFns(context) ==
    /\ result.status = "returned"
    /\ Len(ctxCalls) < MaxCtxCalls
    /\ LET r == getNestedFns(<< <<"loaders", result.loaders>>,
                                <<"middleware", result.middleware>> >>, context)
       IN  /\ ctxCalls' = Append(ctxCalls,
                [context |-> context,
                 status  |-> IF r.threw THEN "threw" ELSE "returned",
                 value   |-> IF r.threw THEN EmptyObject ELSE r.block,
                 error   |-> r.error,
                 failed  |-> r.failed,
                 invoked |-> r.invoked,
                 pendingAtReturn |->
                     IF r.threw THEN {} ELSE PromisesIn(r.block) \cap r.pending])
           /\ pending' = r.pending
           /\ serial' = r.serial
    /\ UNCHANGED <<disk, types, result, fnName, gqlCalls, typesToAddMap,
                   startingState, calls>>

\* a promise returned by an asynchronous factory settles
Settle(p) ==
    /\ p \in pending
    /\ pending' = pending \ {p}
    /\ UNCHANGED <<disk, types, result, fnName, gqlCalls, typesToAddMap,
                   startingState, calls, ctxCalls, serial>>

(***************************************************************************)
(* src/unnamed/part_001: the earlier loader.  Its accumulator and its      *)
(* typesToAddMap are module-level objects that every call goes on using.   *)
(***************************************************************************)
\* const typesToAddMap = {} at module level
part001_typesToAddMap == EmptyObject

\* const startingState = { typeDefs: [], resolvers: {}, loaders: {} }
part001_startingState ==
    [typeDefs |-> << >>, resolvers |-> EmptyObject, loaders |-> EmptyObject]

\* the reducer of src/unnamed/part_001 for one type entry
part001_reduceType(st, typeKey, entry) ==
    LoadCommonResolversFrom(
      LoadLoaders(
        LoadResolvers(
          LoadSchema(st, typeKey, entry),
          typeKey, entry),
        entry),
      typeKey, entry, 1)

RECURSIVE part001_reduceTypesFrom(_, _, _)
part001_reduceTypesFrom(st, tree, i) ==
    IF i > Len(tree) THEN st
    ELSE part001_reduceTypesFrom(part001_reduceType(st, tree[i][1], tree[i][2]),
                                 tree, i + 1)

\* src/unnamed/part_001: the lines after the reduction
part001_FinishLoad(st) ==
    IF st.threw THEN st
    ELSE PushTypeDef(st, BaseTypeDefs(ObjectKeys(st.typesToAddMap)), << >>)

part001_Returned(st) ==
    [status |-> "returned",
     typeDefs |-> st.exp.typeDefs,
     resolvers |-> st.exp.resolvers,
     loaders |-> st.exp.loaders]

\* what loader(path) of src/unnamed/part_001 does from the module state
part001_Load(tree, exp, map) ==
    part001_FinishLoad(part001_reduceTypesFrom(StartState(exp, map), tree, 1))

\* loader(path) of src/unnamed/part_001
part001_loader(path) ==
    /\ calls < MaxCalls
    /\ calls' = calls + 1
    /\ ctxCalls' = << >>
    /\ pending' = {}
    /\ serial' = 0
    /\ UNCHANGED disk
    /\ IF path = ""
         THEN /\ result' = Threw(JsError("A path to load must be specified."))
              /\ gqlCalls' = << >>
              /\ UNCHANGED <<types, fnName, typesToAddMap, startingState>>
         ELSE LET st == part001_Load(disk[path], startingState, typesToAddMap)
              IN  /\ types' = disk[path]
                  /\ fnName' = st.fnName
                  /\ gqlCalls' = st.gqlCalls
                  /\ startingState' = st.exp
                  /\ typesToAddMap' = st.typesToAddMap
                  /\ result' = IF st.threw THEN Threw(st.error)
                               ELSE part001_Returned(st)

\* getLoaders(loaders, context) of src/unnamed/part_001
getLoaders(loaders, context) ==
    RealizeKeysFrom(
      [block |-> EmptyObject, map |-> EmptyObject, invoked |-> << >>,
       serial |-> serial, pending |-> pending,
       threw |-> FALSE, error |-> NoError, failed |-> << >>],
      "loaders", loaders, context, 1)

\* one call of the getLoaders returned by the last loader call
part001_getLoaders(context) ==
    /\ result.status = "returned"
    /\ Len(ctxCalls) < MaxCtxCalls
    /\ LET r == getLoaders(result.loaders, context)
       IN  /\ ctxCalls' = Append(ctxCalls,
                [context |-> context,
                 status  |-> IF r.threw THEN "threw" ELSE "returned",
                 value   |-> IF r.threw THEN EmptyObject ELSE r.map,
                 error   |-> r.error,
                 failed  |-> r.failed,
                 invoked |-> r.invoked,
                 pendingAtReturn |->
                     IF r.threw THEN {}
                     ELSE { r.map[i][2].serial :
                              i \in { k \in 1..Len(r.map) :
                                        r.map[k][2].kind = "promise" } }])
           /\ pending' = r.pending
           /\ serial' = r.serial
    /\ UNCHANGED <<disk, types, result, fnName, gqlCalls, typesToAddMap,
                   startingState, calls>>

(***************************************************************************)
(* Specifications.                                                         *)
(***************************************************************************)
\* the state of a process that has required the module and not called it
Started ==
    /\ types = << >>
    /\ result = NoResult
    /\ fnName = CreationName
    /\ gqlCalls = << >>
    /\ typesToAddMap = part001_typesToAddMap
    /\ startingState = part001_startingState
    /\ calls = 0
    /\ ctxCalls = << >>
    /\ pending = {}
    /\ serial = 0

\* src/index.js with its context functions, over the trees that register
\* loaders and middleware
Init ==
    /\ disk \in [{"./types"} -> FactoryTrees]
    /\ Started

Next ==
    \/ \E path \in Paths : loader(path)
    \/ \E context \in Contexts : getContextFns(context)
    \/ \E p \in pending : Settle(p)

Spec == Init /\ [][Next]_vars

\* the loader of src/index.js over every tree
InitLoad ==
    /\ disk \in [{"./types"} -> Trees]
    /\ Started

NextLoad == \E path \in Paths : loader(path)

SpecLoad == InitLoad /\ [][NextLoad]_vars

\* the loader of src/unnamed/part_001, called on two directories
InitEarly ==
    /\ disk \in [{"./types", "./more"} -> EarlyTrees]
    /\ Started

NextEarly ==
    \/ \E path \in Paths : part001_loader(path)
    \/ \E context \in Contexts : part001_getLoaders(context)
    \/ \E p \in pending : Settle(p)

SpecEarly == InitEarly /\ [][NextEarly]_vars

(***************************************************************************)
(* Vocabulary of the properties, stated on the input tree and on what the  *)
(* caller gets back, not on how the loader computes it.                    *)
(***************************************************************************)
Groups == {"Query", "Mutation", "Subscription"}

\* the last loader call got as far as reading the tree `types`
LoadedTree ==
    \/ result.status = "returned"
    \/ /\ result.status = "threw"
       /\ result.error # JsError("A path to load must be specified.")

\* an operation definition that carries a schema or a resolver
Carries(def) ==
    \/ "schema" \in DOMAIN def /\ def.schema # ""
    \/ "resolver" \in DOMAIN def

\* some type entry of the tree has, under group, a definition that carries one
Populated(tree, group) ==
    \E i \in 1..Len(tree) :
        /\ group \in DOMAIN tree[i][2]
        /\ \E k \in 1..Len(tree[i][2][group]) : Carries(tree[i][2][group][k][2])

PopulatedGroups(tree) == { g \in Groups : Populated(tree, g) }

\* the document synthesized last
RootDocument == result.typeDefs[Len(result.typeDefs)]

IsTypeDeclaration(def) == def.kind = "ObjectTypeDefinition"

IsSchemaBlock(def) == def.kind = "SchemaDefinition"

OperationRole(group) ==
    CASE group = "Query" -> "query"
      [] group = "Mutation" -> "mutation"
      [] group = "Subscription" -> "subscription"

\* `type <group>` is declared by the document
DeclaresType(doc, group) ==
    \E n \in 1..Len(doc) : IsTypeDeclaration(doc[n]) /\ doc[n].name = group

\* `<role>: <group>` is listed in the schema block of the document
DeclaresRole(doc, group) ==
    \E n \in 1..Len(doc) :
        /\ IsSchemaBlock(doc[n])
        /\ \E f \in 1..Len(doc[n].fields) :
             doc[n].fields[f] = <<OperationRole(group), group>>

\* C1: when loader returns, the root document declares `type G` and the
\* schema entry `g: G` exactly for the groups G under which some type entry
\* has an operation definition carrying a schema or a resolver; a definition
\* with neither never gets its group declared
C1_RootDeclaresPopulated ==
    result.status = "returned" =>
        \A g \in Groups :
            /\ DeclaresType(RootDocument, g) <=> Populated(types, g)
            /\ DeclaresRole(RootDocument, g) <=> Populated(types, g)

\* a tree with `{}` under Mutation.noop and a populated Query was loaded, and
\* the root document declares Query and not Mutation
C1_Witness ==
    /\ result.status = "returned"
    /\ \E i \in 1..Len(types) :
         /\ "Mutation" \in DOMAIN types[i][2]
         /\ \E k \in 1..Len(types[i][2]["Mutation"]) :
              types[i][2]["Mutation"][k] = <<"noop", EmptyRecord>>
    /\ DeclaresType(RootDocument, "Query")
    /\ ~DeclaresType(RootDocument, "Mutation")
    /\ ~DeclaresRole(RootDocument, "Mutation")

\* the type names a document declares, in the order it declares them
DeclaredTypes(doc) ==
    LET decls == SelectSeq(doc, IsTypeDeclaration)
    IN  [n \in 1..Len(decls) |-> decls[n].name]

\* the groups a document lists in its schema block, in the order it lists them
ListedGroups(doc) ==
    LET block == SelectSeq(doc, IsSchemaBlock)[1].fields
    IN  [n \in 1..Len(block) |-> block[n][2]]

InGroups(set) == LET Member(g) == g \in set
                 IN  SelectSeq(<<"Query", "Mutation", "Subscription">>, Member)

\* every schema text of the tree is one that gql accepts as the loader hands
\* it over
WellFormed(tree) ==
    \A i \in 1..Len(tree) :
        /\ ("schema" \in DOMAIN tree[i][2] /\ tree[i][2].schema # "")
              => gql(tree[i][2].schema).ok
        /\ \A g \in Groups \cap DOMAIN tree[i][2] :
             \A k \in 1..Len(tree[i][2][g]) :
                 LET def == tree[i][2][g][k][2]
                 IN  ("schema" \in DOMAIN def /\ def.schema # "")
                       => \/ gql(def.schema).ok
                          \/ gql("extend " \o def.schema).ok

\* C2: for a tree with a populated group, loader returns and the root
\* document lists the populated groups, as type declarations and in the
\* schema block, in the order Query, Mutation, Subscription
C2_CanonicalOrder ==
    (LoadedTree /\ WellFormed(types) /\ PopulatedGroups(types) # {}) =>
        /\ result.status = "returned"
        /\ DeclaredTypes(RootDocument) = InGroups(PopulatedGroups(types))
        /\ ListedGroups(RootDocument) = InGroups(PopulatedGroups(types))

\* C3: a tree without any populated group makes loader fail: whenever a
\* loader call has returned a result, the tree it loaded has a populated group
C3_NoGroupNoResult ==
    result.status = "returned" => PopulatedGroups(types) # {}

\* what a first call of the loader that produced `result` returns for a tree
FirstCallResult(tree) ==
    IF "middleware" \in DOMAIN result
      THEN Returned(FinishLoad(
             reduceTypesFrom(StartState(NewExp, NewTypesToAddMap), tree, 1)))
      ELSE part001_Returned(
             part001_Load(tree, part001_startingState, part001_typesToAddMap))

\* C4: nothing carries over between loader calls: what a call returns for a
\* tree is what a first call on that tree returns
C4_NoCarryOver ==
    result.status = "returned" => result = FirstCallResult(types)

ContextBlocks == {"loaders", "middleware"}

\* the serials of the objects a realized mapping holds
InstancesIn(block) ==
    UNION { { block[n][2][i][2].serial : i \in 1..Len(block[n][2]) } :
            n \in 1..Len(block) }

\* the positions in the invocation log of a call where the factory under
\* mainKey.key was called
Invocations(c, mainKey, key) ==
    { i \in 1..Len(c.invoked) :
        c.invoked[i].mainKey = mainKey /\ c.invoked[i].key = key }

\* C5: a getContextFns(ctx) call that returns has called every registered
\* loader factory and middleware factory exactly once, with ctx, and its
\* mapping { loaders, middleware } holds under each original key the object
\* that call of the factory made; no call passes another context to a
\* factory, and no object is held by the mappings of two calls
C5_RealizesEachOnce ==
    result.status = "returned" =>
      \A n \in 1..Len(ctxCalls) :
        LET c == ctxCalls[n]
        IN  /\ \A i \in 1..Len(c.invoked) : c.invoked[i].context = c.context
            /\ c.status = "returned" =>
                 /\ ObjectKeys(c.value) = <<"loaders", "middleware">>
                 /\ Len(c.invoked) = Len(result.loaders) + Len(result.middleware)
                 /\ \A mainKey \in ContextBlocks :
                      /\ ObjectKeys(GetProp(c.value, mainKey))
                           = ObjectKeys(result[mainKey])
                      /\ \A k \in 1..Len(result[mainKey]) :
                           LET key == result[mainKey][k][1]
                               made == GetProp(GetProp(c.value, mainKey), key)
                           IN  /\ Cardinality(Invocations(c, mainKey, key)) = 1
                               /\ \A i \in Invocations(c, mainKey, key) :
                                    c.invoked[i].factory = result[mainKey][k][2]
                               /\ made.factory = result[mainKey][k][2]
                               /\ made.context = c.context
                 /\ \A m \in 1..Len(ctxCalls) :
                      m # n => InstancesIn(ctxCalls[m].value)
                                 \cap InstancesIn(c.value) = {}

\* two calls with two contexts have returned mappings that hold loaders and
\* middleware
C5_Witness ==
    /\ result.status = "returned"
    /\ Len(ctxCalls) = 2
    /\ ctxCalls[1].status = "returned" /\ ctxCalls[2].status = "returned"
    /\ ctxCalls[1].context # ctxCalls[2].context
    /\ Len(result.loaders) > 0 /\ Len(result.middleware) > 0
    /\ InstancesIn(ctxCalls[1].value) # {}
    /\ InstancesIn(ctxCalls[2].value) # {}

\* the type entries that register name in their loaders / middleware map
Registering(tree, field, name) ==
    { i \in 1..Len(tree) :
        /\ field \in DOMAIN tree[i][2]
        /\ \E k \in 1..Len(tree[i][2][field]) : tree[i][2][field][k][1] = name }

RegisteredNames(tree, field) ==
    UNION { { tree[i][2][field][k][1] : k \in 1..Len(tree[i][2][field]) } :
            i \in { j \in 1..Len(tree) : field \in DOMAIN tree[j][2] } }

\* the factory that the entry discovered last registers under name
LastRegistered(tree, field, name) ==
    LET last == CHOOSE i \in Registering(tree, field, name) :
                    \A j \in Registering(tree, field, name) : j <= i
        map  == tree[last][2][field]
    IN  map[CHOOSE k \in 1..Len(map) : map[k][1] = name][2]

\* C6: the loader and middleware maps are merged with last-write-wins: each
\* registered name occurs once in the map that getContextFns uses, with the
\* factory of the entry discovered last, a factory called by getContextFns
\* is that one, and a name registered by two entries does not make the load
\* fail
C6_LastWriteWins ==
    LoadedTree =>
      /\ (\E field \in ContextBlocks : \E name \in RegisteredNames(types, field) :
            Cardinality(Registering(types, field, name)) > 1)
           => result.status = "returned"
      /\ result.status = "returned" =>
           \A field \in ContextBlocks :
             /\ { result[field][k][1] : k \in 1..Len(result[field]) }
                  = RegisteredNames(types, field)
             /\ \A name \in RegisteredNames(types, field) :
                  /\ Cardinality({ k \in 1..Len(result[field]) :
                                     result[field][k][1] = name }) = 1
                  /\ \A k \in 1..Len(result[field]) :
                       result[field][k][1] = name =>
                         result[field][k][2] = LastRegistered(types, field, name)
             /\ \A n \in 1..Len(ctxCalls) :
                  \A i \in 1..Len(ctxCalls[n].invoked) :
                    LET inv == ctxCalls[n].invoked[i]
                    IN  inv.mainKey = field =>
                          inv.factory = LastRegistered(types, field, inv.key)

\* two entries register different factories under one loader name and under
\* one middleware name, the load returned and getContextFns was called
C6_Witness ==
    /\ result.status = "returned"
    /\ Len(types) = 2
    /\ \A field \in ContextBlocks :
         \E name \in RegisteredNames(types, field) :
           /\ Registering(types, field, name) = {1, 2}
           /\ GetProp(types[1][2][field], name) # GetProp(types[2][2][field], name)
           /\ GetProp(result[field], name) = GetProp(types[2][2][field], name)
    /\ \E n \in 1..Len(ctxCalls) : ctxCalls[n].status = "returned"

\* the raw schema text of the operation definition at <<typeKey, item, key>>
OperationSchemaText(tree, origin) ==
    LET entry == tree[CHOOSE i \in 1..Len(tree) : tree[i][1] = origin[1]][2]
        group == entry[origin[2]]
    IN  group[CHOOSE k \in 1..Len(group) : group[k][1] = origin[3]][2].schema

\* the raw schema text of the type entry typeKey
EntrySchemaText(tree, typeKey) ==
    tree[CHOOSE i \in 1..Len(tree) : tree[i][1] = typeKey][2].schema

\* the text the claim says is parsed for an operation schema fragment
AutoExtended(raw) ==
    IF StartsWith(Trim(raw), "extend") THEN Trim(raw) ELSE "extend " \o Trim(raw)

\* C7: an operation schema fragment whose trimmed text does not begin with
\* `extend` is parsed as that text with `extend ` prepended, one that begins
\* with `extend` is parsed as it is; no document comes from text that starts
\* with `extend extend`; the schema of a type entry is parsed unprefixed
C7_AutoExtendIdempotent ==
    /\ \A n \in 1..Len(gqlCalls) :
         LET c == gqlCalls[n]
         IN  /\ Len(c.origin) = 3 =>
                  c.text = AutoExtended(OperationSchemaText(types, c.origin))
             /\ Len(c.origin) = 1 => c.text = EntrySchemaText(types, c.origin[1])
             /\ c.ok => ~StartsWith(c.text, "extend extend")
    /\ result.status = "returned" =>
         /\ Len(result.typeDefs) = Len(gqlCalls)
         /\ \A n \in 1..Len(gqlCalls) :
              /\ Len(gqlCalls[n].origin) = 3 =>
                   result.typeDefs[n] =
                     gql(AutoExtended(OperationSchemaText(types, gqlCalls[n].origin))).doc
              /\ Len(gqlCalls[n].origin) = 1 =>
                   result.typeDefs[n] =
                     gql(EntrySchemaText(types, gqlCalls[n].origin[1])).doc

\* a load returned documents of a fragment that got the prefix, of a padded
\* fragment that already began with `extend`, and of a type entry's schema
C7_Witness ==
    /\ result.status = "returned"
    /\ \E n \in 1..Len(gqlCalls) :
         /\ Len(gqlCalls[n].origin) = 3
         /\ ~StartsWith(Trim(OperationSchemaText(types, gqlCalls[n].origin)), "extend")
         /\ StartsWith(gqlCalls[n].text, "extend ")
    /\ \E n \in 1..Len(gqlCalls) :
         /\ Len(gqlCalls[n].origin) = 3
         /\ StartsWith(Trim(OperationSchemaText(types, gqlCalls[n].origin)), "extend")
         /\ OperationSchemaText(types, gqlCalls[n].origin) # gqlCalls[n].text
    /\ \E n \in 1..Len(gqlCalls) : Len(gqlCalls[n].origin) = 1

GroupRank(group) ==
    CASE group = "Query" -> 1 [] group = "Mutation" -> 2 [] group = "Subscription" -> 3

HasSchema(obj) == "schema" \in DOMAIN obj /\ obj.schema # ""

\* where the schemas of a tree are: <<entry, 0, 0>> for the schema of a type
\* entry, <<entry, rank of the group, operation>> for an operation schema
SchemaPositions(tree) ==
    { <<i, 0, 0>> : i \in { j \in 1..Len(tree) : HasSchema(tree[j][2]) } }
    \cup
    UNION { UNION { { <<i, GroupRank(g), k>> :
                        k \in { l \in 1..Len(tree[i][2][g]) :
                                  HasSchema(tree[i][2][g][l][2]) } } :
                    g \in Groups \cap DOMAIN tree[i][2] } :
            i \in 1..Len(tree) }

\* the position a parsed text came from
PositionOf(tree, origin) ==
    LET i == CHOOSE j \in 1..Len(tree) : tree[j][1] = origin[1]
    IN  IF Len(origin) = 1 THEN <<i, 0, 0>>
        ELSE LET group == tree[i][2][origin[2]]
             IN  <<i, GroupRank(origin[2]),
                   CHOOSE k \in 1..Len(group) : group[k][1] = origin[3]>>

Before(p, q) ==
    \/ p[1] < q[1]
    \/ p[1] = q[1] /\ p[2] < q[2]
    \/ p[1] = q[1] /\ p[2] = q[2] /\ p[3] < q[3]

\* C8: typeDefs holds, in discovery order of the type entries, for each entry
\* the document of its schema, then those of its operation schemas by group
\* (Query, Mutation, Subscription) and by operation, and the root document
\* as its single last element; its length is the number of entries with a
\* schema plus the number of operation definitions with a schema plus one
C8_TypeDefsOrder ==
    result.status = "returned" =>
      LET len == Len(result.typeDefs)
      IN  /\ len = Cardinality(SchemaPositions(types)) + 1
          /\ Len(gqlCalls) = len
          /\ gqlCalls[len].origin = << >>
          /\ result.typeDefs[len] = gql(BaseTypeDefs(DeclaredTypes(RootDocument))).doc
          /\ \A n \in 1..(len - 1) :
               /\ gqlCalls[n].origin # << >>
               /\ PositionOf(types, gqlCalls[n].origin) \in SchemaPositions(types)
               /\ result.typeDefs[n] = gql(gqlCalls[n].text).doc
               /\ \A m \in (n + 1)..(len - 1) :
                    Before(PositionOf(types, gqlCalls[n].origin),
                           PositionOf(types, gqlCalls[m].origin))

\* two type entries, each with a schema and with operation schemas, were
\* loaded into at least six documents
C8_Witness ==
    /\ result.status = "returned"
    /\ Len(types) = 2
    /\ HasSchema(types[1][2]) /\ HasSchema(types[2][2])
    /\ \E p \in SchemaPositions(types) : p[1] = 1 /\ p[2] = 1
    /\ \E p \in SchemaPositions(types) : p[1] = 1 /\ p[2] = 3
    /\ \E p \in SchemaPositions(types) : p[1] = 2 /\ p[2] > 0
    /\ Len(result.typeDefs) >= 6

\* sub occurs in s
Contains(s, sub) ==
    \E i \in 1..(Len(s) - Len(sub) + 1) : SubSeq(s, i, i + Len(sub) - 1) = sub

\* C9: when a factory throws during getContextFns(ctx), the call fails with
\* an error that identifies the name of the failing loader or middleware,
\* and no mapping is returned from that call
C9_FailureNamesFactory ==
    \A n \in 1..Len(ctxCalls) :
        ctxCalls[n].status = "threw" =>
          /\ ctxCalls[n].value = EmptyObject
          /\ Contains(ctxCalls[n].error.message, ctxCalls[n].failed[2])

\* C10: a mapping returned by getContextFns(ctx) holds no entry that is still
\* a pending result
C10_NoPendingEntry ==
    \A n \in 1..Len(ctxCalls) :
        ctxCalls[n].status = "returned" => ctxCalls[n].pendingAtReturn = {}

\* the factories that return a promise
AsyncFactories == {"asyncLoader"}

\* C10 as amended: getContextFns(ctx) returns without waiting: when it
\* returns, every registered factory has been called, and the entry of each
\* asynchronous factory is the promise that call returned, still pending
C10_ReturnsPromisesUnawaited ==
    result.status = "returned" =>
      \A n \in 1..Len(ctxCalls) :
        LET c == ctxCalls[n]
        IN  c.status = "returned" =>
              /\ Len(c.invoked) = Len(result.loaders) + Len(result.middleware)
              /\ \A mainKey \in ContextBlocks :
                   \A k \in 1..Len(result[mainKey]) :
                     LET made == GetProp(GetProp(c.value, mainKey),
                                         result[mainKey][k][1])
                     IN  IF result[mainKey][k][2] \in AsyncFactories
                           THEN /\ made.kind = "promise"
                                /\ made.serial \in c.pendingAtReturn
                           ELSE made.kind = "instance"

\* a call returned a mapping that held a pending promise, which has not
\* settled since
C10_Witness ==
    \E n \in 1..Len(ctxCalls) :
        /\ ctxCalls[n].status = "returned"
        /\ ctxCalls[n].pendingAtReturn # {}
        /\ ctxCalls[n].pendingAtReturn \subseteq pending

\* C11: loader does not mutate its input tree: across a loader call, whether
\* it returns or fails, the tree microload produced and every property of
\* every resolver function object in it are the same as before the call
C11_InputTreeUntouched ==
    [][(\E path \in Paths : loader(path)) =>
          /\ disk' = disk
          /\ fnName' = fnName]_vars

\* the debug names the loader gives function fn for the places where the
\* tree holds it: Resolver_<type>_<field> and <group>_<type>_<operation>
DebugNames(tree, fn) ==
    { "Resolver_" \o tree[i][1] \o "_" \o tree[i][2].resolvers[j][1] :
        <<i, j>> \in { p \in (1..Len(tree)) \X (1..3) :
                         /\ "resolvers" \in DOMAIN tree[p[1]][2]
                         /\ p[2] <= Len(tree[p[1]][2].resolvers)
                         /\ tree[p[1]][2].resolvers[p[2]][2] = fn } }
    \cup
    UNION { { g \o "_" \o tree[i][1] \o "_" \o tree[i][2][g][k][1] :
                <<i, k>> \in { p \in (1..Len(tree)) \X (1..3) :
                                 /\ g \in DOMAIN tree[p[1]][2]
                                 /\ p[2] <= Len(tree[p[1]][2][g])
                                 /\ "resolver" \in DOMAIN tree[p[1]][2][g][p[2]][2]
                                 /\ tree[p[1]][2][g][p[2]][2].resolver = fn } } :
            g \in Groups }

\* C11 as it holds: a loader call leaves the tree and its leaves in place and
\* changes nothing but the name property of resolver functions of the tree
\* it loaded; a name it changes becomes a debug name of that function, and
\* when the call returns every resolver function of the tree has one
C11_OnlyDebugNamesChange ==
    [][(\E path \in Paths : loader(path)) =>
          /\ disk' = disk
          /\ \A fn \in Functions :
                fnName'[fn] # fnName[fn] => fnName'[fn] \in DebugNames(types', fn)
          /\ result'.status = "returned" =>
                \A fn \in Functions :
                   DebugNames(types', fn) # {} =>
                      fnName'[fn] \in DebugNames(types', fn)]_vars

\* a load has returned and given debug names to a field resolver and to an
\* operation resolver of its tree
C11_Witness ==
    /\ result.status = "returned"
    /\ \E fn \in Functions, i \in 1..Len(types) :
          fnName[fn] = "Resolver_" \o types[i][1] \o "_author"
    /\ \E fn \in Functions, i \in 1..Len(types) :
          fnName[fn] = "Query_" \o types[i][1] \o "_books"

\* the gql call that was rejected, if any: the last one the loader made
RejectedFragment == gqlCalls[Len(gqlCalls)]

ParserRejected ==
    /\ gqlCalls # << >>
    /\ ~RejectedFragment.ok

\* C12: when the parser rejects a schema fragment, loader aborts with no
\* result and raises the parser's error annotated with the type entry name
\* and, for an operation schema, the group and the operation name the
\* fragment came from
C12_ParseFailureNamesOrigin ==
    ParserRejected =>
        /\ result.status = "threw"
        /\ result.error # SyntaxError(RejectedFragment.text)
        /\ \A i \in 1..Len(RejectedFragment.origin) :
              Contains(result.error.message, RejectedFragment.origin[i])

\* the type entries of the tree that define operation key under group with a
\* resolver
ResolverSites(tree, group, key) ==
    { i \in 1..Len(tree) :
        /\ group \in DOMAIN tree[i][2]
        /\ HasKey(tree[i][2][group], key)
        /\ "resolver" \in DOMAIN GetProp(tree[i][2][group], key) }

\* the resolver of the last-discovered operation definition group.key
LastOperationResolver(tree, group, key) ==
    LET sites == ResolverSites(tree, group, key)
        last  == CHOOSE i \in sites : \A j \in sites : j <= i
    IN  GetProp(tree[last][2][group], key).resolver

\* the operation names defined under group anywhere in the tree
OperationNames(tree, group) ==
    UNION { { tree[i][2][group][k][1] : k \in 1..Len(tree[i][2][group]) } :
            i \in { n \in 1..Len(tree) : group \in DOMAIN tree[n][2] } }

\* the names of the type entries that carry resolvers
ResolverTypes(tree) ==
    { tree[i][1] : i \in { n \in 1..Len(tree) : "resolvers" \in DOMAIN tree[n][2] } }

\* the groups with at least one resolver-bearing operation definition
ResolverGroups(tree) ==
    { g \in Groups : \E k \in OperationNames(tree, g) : ResolverSites(tree, g, k) # {} }

\* C13: whatever the type entries are named, after loader succeeds
\* resolvers[G][K] is the resolver of the last-discovered operation definition
\* G.K that carries one, the field resolvers of the type entry named T are
\* found under resolvers[T], and resolvers has no key but the names of type
\* entries carrying resolvers and the groups with a resolver-bearing operation
C13_ResolversIndependent ==
    result.status = "returned" =>
        /\ \A g \in Groups : \A k \in OperationNames(types, g) :
              ResolverSites(types, g, k) # {} =>
                 /\ HasKey(result.resolvers, g)
                 /\ HasKey(GetProp(result.resolvers, g), k)
                 /\ GetProp(GetProp(result.resolvers, g), k)
                       = LastOperationResolver(types, g, k)
        /\ \A i \in 1..Len(types) :
              "resolvers" \in DOMAIN types[i][2] =>
                 /\ HasKey(result.resolvers, types[i][1])
                 /\ \A j \in 1..Len(types[i][2].resolvers) :
                       LET field == types[i][2].resolvers[j]
                           map   == GetProp(result.resolvers, types[i][1])
                       IN  /\ HasKey(map, field[1])
                           /\ GetProp(map, field[1]) = field[2]
        /\ \A n \in 1..Len(result.resolvers) :
              result.resolvers[n][1] \in ResolverTypes(types) \cup ResolverGroups(types)

====
